---- MODULE Spec2Model ----
(***************************************************************************)
(* dirdiff (src/src/main.rs): list two directory trees with glob, merge    *)
(* the two listings into a sequence of Removed / Added / Similar entries,  *)
(* print the entries and a summary line.                                   *)
(*                                                                         *)
(* A relative path is the sequence of its components; a component name is  *)
(* a natural number, ordered as the names' bytes are.  Two specifications: *)
(*   Spec      the whole of main, from check_cli_args to the summary;      *)
(*   SpecDiff  get_dir_diff alone, called on any two sorted,               *)
(*             duplicate-free listings; pc = "print" is its return.        *)
(***************************************************************************)
EXTENDS Naturals, Sequences, FiniteSets

\* Bounds of the model.
MaxName == 2
MaxDepth == 2
MaxLen == 2
MaxEntries == 3

VARIABLES
    pc,                   \* position in main / get_dir_diff
    depth,                \* args.depth: <<>> is None, <<d>> is Some(d)
    quiet,                \* args.quiet
    no_color,             \* args.no_color
    files,                \* args.files (compare_file_content)
    source_tree,          \* entries that exist under the source root
    target_tree,          \* entries that exist under the target root
    source_files,         \* paths that are regular files under the source root
    target_files,         \* paths that are regular files under the target root
    differing,            \* regular files on both sides whose contents differ
    source_dir_listing,
    target_dir_listing,
    source_index,
    target_index,
    iteration,            \* the `_` of `for _ in 0..longest_listing`
    diff_output,
    reads,                \* paths whose contents read_to_string has been asked for
    stdout,               \* lines printed by print_dir_diff
    summary,              \* the line printed by print_diff_summary
    stderr                \* number of lines written by eprintln!

vars == <<pc, depth, quiet, no_color, files, source_tree, target_tree,
          source_files, target_files, differing, source_dir_listing,
          target_dir_listing, source_index, target_index, iteration,
          diff_output, reads, stdout, summary, stderr>>

----------------------------------------------------------------------------
\* Paths

\* The entry named k at level d of a chain of nested directories named 1.
ChainPath(d, k) == [i \in 1..d |-> IF i < d THEN 1 ELSE k]

\* The relative paths the model's trees are built from.
Paths == {ChainPath(d, k) : d \in 1..MaxDepth, k \in 1..MaxName}

\* The relative path of the root itself (strip_prefix of the root by itself).
RootPath == <<>>

\* PathBuf's `<`: component by component, a proper prefix first.
PathLess(p, q) ==
    \E i \in 1..Len(q) :
        /\ Len(p) >= i - 1
        /\ \A j \in 1..(i - 1) : p[j] = q[j]
        /\ IF Len(p) = i - 1 THEN TRUE ELSE p[i] < q[i]

IsPrefix(p, q) == Len(p) < Len(q) /\ \A j \in 1..Len(p) : p[j] = q[j]

\* The paths of S and every directory above them.
Closure(S) == S \cup {p \in Paths : \E q \in S : IsPrefix(p, q)}

HasChild(p, tree) == \E q \in tree : IsPrefix(p, q)

Range(s) == {s[i] : i \in 1..Len(s)}

IsSorted(s) == \A i \in 1..Len(s) : \A j \in (i + 1)..Len(s) : PathLess(s[i], s[j])

NonDecreasing(s) ==
    \A i \in 1..Len(s) : \A j \in (i + 1)..Len(s) : ~PathLess(s[j], s[i])

\* Every order the elements of S can be enumerated in.
Orders(S) ==
    {s \in [1..Cardinality(S) -> S] : \A i, j \in 1..Cardinality(S) : s[i] = s[j] => i = j}

\* The one ascending order of S.
SortedSeq(S) == CHOOSE s \in Orders(S) : IsSorted(s)

----------------------------------------------------------------------------
\* DirDiff<T> and DirDiffFileContent

Removed(p) == [tag |-> "Removed", path |-> p]
Added(p) == [tag |-> "Added", path |-> p]
Similar(p, c) == [tag |-> "Similar", path |-> p, content |-> c]

Max(a, b) == IF a >= b THEN a ELSE b

longest_listing == Max(Len(source_dir_listing), Len(target_dir_listing))

IsFile(p, file_set) == p \in file_set

\* A faulty drain, against which C2 is tested: it pushes the first entries of
\* the listing instead of the remaining ones.
RemainingAddedFromStart(listing, from) ==
    [k \in 1..(Len(listing) - from) |-> Added(listing[k])]

\* The entries the two drains push.
RemainingAdded(listing, from) ==
    [k \in 1..(Len(listing) - from) |-> Added(listing[from + k])]

RemainingRemoved(listing, from) ==
    [k \in 1..(Len(listing) - from) |-> Removed(listing[from + k])]

----------------------------------------------------------------------------
\* get_dir_diff

cur_source == source_dir_listing[source_index + 1]
cur_target == target_dir_listing[target_index + 1]

diff_unchanged == <<depth, quiet, no_color, files, source_tree, target_tree,
                    source_files, target_files, differing, source_dir_listing,
                    target_dir_listing, stdout, summary, stderr>>

\* `for _ in 0..longest_listing` is exhausted without a break.
LoopExit ==
    /\ pc = "loop"
    /\ iteration >= longest_listing
    /\ pc' = "print"
    /\ UNCHANGED <<source_index, target_index, iteration, diff_output, reads>>
    /\ UNCHANGED diff_unchanged

\* Line 132 indexes a listing past its end.
IndexPanic ==
    /\ pc = "loop"
    /\ iteration < longest_listing
    /\ \/ source_index >= Len(source_dir_listing)
       \/ target_index >= Len(target_dir_listing)
    /\ pc' = "panic"
    /\ UNCHANGED <<source_index, target_index, iteration, diff_output, reads>>
    /\ UNCHANGED diff_unchanged

InBounds ==
    /\ pc = "loop"
    /\ iteration < longest_listing
    /\ source_index < Len(source_dir_listing)
    /\ target_index < Len(target_dir_listing)

EmitRemoved ==
    /\ InBounds
    /\ PathLess(cur_source, cur_target)
    /\ diff_output' = Append(diff_output, Removed(cur_source))
    /\ source_index' = source_index + 1
    /\ pc' = "check"
    /\ UNCHANGED <<target_index, iteration, reads>>
    /\ UNCHANGED diff_unchanged

EmitAdded ==
    /\ InBounds
    /\ ~PathLess(cur_source, cur_target)
    /\ PathLess(cur_target, cur_source)
    /\ diff_output' = Append(diff_output, Added(cur_target))
    /\ target_index' = target_index + 1
    /\ pc' = "check"
    /\ UNCHANGED <<source_index, iteration, reads>>
    /\ UNCHANGED diff_unchanged

PathsEqual ==
    /\ InBounds
    /\ ~PathLess(cur_source, cur_target)
    /\ ~PathLess(cur_target, cur_source)

\* Lines 153-159: one side is a regular file, the other is not.
EmitSimilarTypeChange ==
    /\ PathsEqual
    /\ files
    /\ IsFile(cur_source, source_files) # IsFile(cur_target, target_files)
    /\ diff_output' = Append(diff_output, Similar(cur_source, "Changed"))
    /\ source_index' = source_index + 1
    /\ target_index' = target_index + 1
    /\ pc' = "check"
    /\ UNCHANGED <<iteration, reads>>
    /\ UNCHANGED diff_unchanged

\* Lines 160-184: both sides are regular files and both reads succeed.
EmitSimilarCompared ==
    /\ PathsEqual
    /\ files
    /\ IsFile(cur_source, source_files)
    /\ IsFile(cur_target, target_files)
    /\ reads' = reads \cup {cur_source}
    /\ diff_output' = Append(diff_output,
           Similar(cur_source, IF cur_source \in differing THEN "Changed" ELSE "Unchanged"))
    /\ source_index' = source_index + 1
    /\ target_index' = target_index + 1
    /\ pc' = "check"
    /\ UNCHANGED iteration
    /\ UNCHANGED diff_unchanged

\* Lines 165-171: read_to_string fails and expect() panics.
ReadPanic ==
    /\ PathsEqual
    /\ files
    /\ IsFile(cur_source, source_files)
    /\ IsFile(cur_target, target_files)
    /\ reads' = reads \cup {cur_source}
    /\ pc' = "panic"
    /\ UNCHANGED <<source_index, target_index, iteration, diff_output>>
    /\ UNCHANGED diff_unchanged

\* A faulty equal-paths step, against which C10 is tested: it advances the
\* source cursor only.
EmitSimilarNoneSourceOnly ==
    /\ PathsEqual
    /\ \/ ~files
       \/ /\ ~IsFile(cur_source, source_files)
          /\ ~IsFile(cur_target, target_files)
    /\ diff_output' = Append(diff_output, Similar(cur_source, "None"))
    /\ source_index' = source_index + 1
    /\ pc' = "check"
    /\ UNCHANGED <<target_index, iteration, reads>>
    /\ UNCHANGED diff_unchanged

\* Lines 185-191: no content check.
EmitSimilarNone ==
    /\ PathsEqual
    /\ \/ ~files
       \/ /\ ~IsFile(cur_source, source_files)
          /\ ~IsFile(cur_target, target_files)
    /\ diff_output' = Append(diff_output, Similar(cur_source, "None"))
    /\ source_index' = source_index + 1
    /\ target_index' = target_index + 1
    /\ pc' = "check"
    /\ UNCHANGED <<iteration, reads>>
    /\ UNCHANGED diff_unchanged

\* Lines 198-204: the source listing is used up; the rest of target is Added.
DrainTarget ==
    /\ pc = "check"
    /\ source_index >= Len(source_dir_listing)
    /\ diff_output' = diff_output \o RemainingAdded(target_dir_listing, target_index)
    /\ pc' = "print"
    /\ UNCHANGED <<source_index, target_index, iteration, reads>>
    /\ UNCHANGED diff_unchanged

\* Lines 205-212: the target listing is used up; the rest of source is Removed.
DrainSource ==
    /\ pc = "check"
    /\ source_index < Len(source_dir_listing)
    /\ target_index >= Len(target_dir_listing)
    /\ diff_output' = diff_output \o RemainingRemoved(source_dir_listing, source_index)
    /\ pc' = "print"
    /\ UNCHANGED <<source_index, target_index, iteration, reads>>
    /\ UNCHANGED diff_unchanged

\* Neither listing is used up: the next iteration of the for loop.
NextIteration ==
    /\ pc = "check"
    /\ source_index < Len(source_dir_listing)
    /\ target_index < Len(target_dir_listing)
    /\ iteration' = iteration + 1
    /\ pc' = "loop"
    /\ UNCHANGED <<source_index, target_index, diff_output, reads>>
    /\ UNCHANGED diff_unchanged

----------------------------------------------------------------------------
\* print_dir_diff

\* A printed line: the prefix as written, the path, and the colour the line
\* is styled with ("plain" when no colour method is applied).
Line(prefix, p, colour) == [prefix |-> prefix, path |-> p, colour |-> colour]

\* The line one entry prints, as a sequence of zero or one lines.
EntryLines(e, hide_similarities, color) ==
    IF e.tag = "Removed"
    THEN IF color THEN <<Line("- ", e.path, "red")>> ELSE <<Line("- ", e.path, "plain")>>
    ELSE IF e.tag = "Added"
    THEN IF color THEN <<Line("+ ", e.path, "green")>> ELSE <<Line("+ ", e.path, "plain")>>
    ELSE IF hide_similarities
    THEN <<>>
    ELSE IF e.content = "None"
    THEN <<Line("  ", e.path, "plain")>>
    ELSE IF e.content = "Unchanged"
    THEN <<Line(" ", e.path, "plain")>>
    ELSE <<Line("~ ", e.path, "yellow")>>

RECURSIVE RenderedLines(_, _, _)
RenderedLines(dir_diff, hide_similarities, color) ==
    IF dir_diff = <<>>
    THEN <<>>
    ELSE EntryLines(Head(dir_diff), hide_similarities, color)
             \o RenderedLines(Tail(dir_diff), hide_similarities, color)

print_dir_diff ==
    /\ pc = "print"
    /\ stdout' = stdout \o RenderedLines(diff_output, quiet, ~no_color)
    /\ pc' = "summary"
    /\ UNCHANGED <<depth, quiet, no_color, files, source_tree, target_tree,
                   source_files, target_files, differing, source_dir_listing,
                   target_dir_listing, source_index, target_index, iteration,
                   diff_output, reads, summary, stderr>>

----------------------------------------------------------------------------
\* print_diff_summary

Count(dir_diff, tag, content) ==
    Cardinality({i \in 1..Len(dir_diff) :
        /\ dir_diff[i].tag = tag
        /\ tag = "Similar" => dir_diff[i].content = content})

num_removed(dir_diff) == Count(dir_diff, "Removed", "None")
num_added(dir_diff) == Count(dir_diff, "Added", "None")
num_similar(dir_diff) == Count(dir_diff, "Similar", "None")
num_unchanged(dir_diff) == Count(dir_diff, "Similar", "Unchanged")
num_changed(dir_diff) == Count(dir_diff, "Similar", "Changed")

\* The summary line as its parts, each a count and the words after it.
SummaryLine(dir_diff, hide_similarities, compare_file_content) ==
    <<[n |-> num_removed(dir_diff), label |-> "removed"],
      [n |-> num_added(dir_diff), label |-> "added"]>>
    \o (IF ~hide_similarities
        THEN <<[n |-> num_similar(dir_diff), label |-> "similar"]>>
             \o (IF compare_file_content
                 THEN <<[n |-> num_changed(dir_diff), label |-> "files changed"],
                        [n |-> num_unchanged(dir_diff), label |-> "files unchanged"]>>
                 ELSE <<>>)
        ELSE <<>>)

print_diff_summary ==
    /\ pc = "summary"
    /\ summary' = SummaryLine(diff_output, quiet, files)
    /\ pc' = "done"
    /\ UNCHANGED <<depth, quiet, no_color, files, source_tree, target_tree,
                   source_files, target_files, differing, source_dir_listing,
                   target_dir_listing, source_index, target_index, iteration,
                   diff_output, reads, stdout, stderr>>

----------------------------------------------------------------------------
\* glob_pattern_from_path_buf and get_dir_listing

\* The pattern below the root, one element per "/"-separated part.
glob_pattern_from_path_buf(d) ==
    IF d = <<>>
    THEN <<"**", "*">>
    ELSE [i \in 1..d[1] |-> "*"]

\* glob's matching of a relative path: "*" is one component, "**" is any
\* number of directories.
RECURSIVE GlobMatches(_, _)
GlobMatches(p, pattern) ==
    IF pattern = <<>>
    THEN p = <<>>
    ELSE IF Head(pattern) = "**"
    THEN \/ GlobMatches(p, Tail(pattern))
         \/ p # <<>> /\ GlobMatches(Tail(p), pattern)
    ELSE p # <<>> /\ GlobMatches(Tail(p), Tail(pattern))

\* The entries glob yields for a tree, each with the root stripped.  The root
\* is taken not to be "/", so line 100's one-component case does not arise.
ListedPaths(tree, d) ==
    {p \in tree \cup {RootPath} : GlobMatches(p, glob_pattern_from_path_buf(d))}

main_unchanged == <<depth, quiet, no_color, files, source_tree, target_tree,
                    source_files, target_files, differing, source_index,
                    target_index, iteration, diff_output, reads, stdout, summary>>

\* check_cli_args: both roots exist and are directories, or main returns Err.
check_cli_args ==
    /\ pc = "check_args"
    /\ \/ pc' = "list_source"
       \/ pc' = "error"
    /\ UNCHANGED <<source_dir_listing, target_dir_listing, stderr>>
    /\ UNCHANGED main_unchanged

\* get_dir_listing(&args.source_dir, args.depth): the paths are pushed in the
\* order the glob iterator yields them; an Err item is printed and skipped.
ListSource ==
    /\ pc = "list_source"
    /\ \E order \in Orders(ListedPaths(source_tree, depth)) :
           source_dir_listing' = order
    /\ \E errors \in 0..1 : stderr' = stderr + errors
    /\ pc' = "list_target"
    /\ UNCHANGED target_dir_listing
    /\ UNCHANGED main_unchanged

\* get_dir_listing(&args.target_dir, args.depth), then the call of get_dir_diff.
ListTarget ==
    /\ pc = "list_target"
    /\ \E order \in Orders(ListedPaths(target_tree, depth)) :
           target_dir_listing' = order
    /\ \E errors \in 0..1 : stderr' = stderr + errors
    /\ pc' = "loop"
    /\ UNCHANGED source_dir_listing
    /\ UNCHANGED main_unchanged

----------------------------------------------------------------------------
\* Specifications

\* A directory tree: every entry's parent directory is an entry too.
Trees == {T \in SUBSET Paths : Closure(T) = T /\ Cardinality(T) <= MaxEntries}

\* Listings as a caller may pass them: any set of paths, in ascending order.
\* get_dir_diff reads neither quiet nor no_color.
ListingSets == {S \in SUBSET Paths : Cardinality(S) <= MaxLen}

Depths == {<<>>} \cup {<<d>> : d \in 0..MaxDepth}

\* Only paths under both roots are ever asked about, so only their kinds and
\* contents are part of the state; a path with entries below it is a directory.
InitFilesystem(both) ==
    /\ source_files \in SUBSET {p \in both : ~HasChild(p, source_tree)}
    /\ target_files \in SUBSET {p \in both : ~HasChild(p, target_tree)}
    /\ differing \in SUBSET (source_files \cap target_files)

InitRun ==
    /\ files \in BOOLEAN
    /\ source_index = 0
    /\ target_index = 0
    /\ iteration = 0
    /\ diff_output = <<>>
    /\ reads = {}
    /\ stdout = <<>>
    /\ summary = <<>>
    /\ stderr = 0

Init ==
    /\ pc = "check_args"
    /\ depth \in Depths
    /\ source_tree \in Trees
    /\ target_tree \in Trees
    /\ InitFilesystem(source_tree \cap target_tree)
    /\ source_dir_listing = <<>>
    /\ target_dir_listing = <<>>
    /\ quiet \in BOOLEAN
    /\ no_color \in BOOLEAN
    /\ InitRun

InitDiff ==
    /\ pc = "loop"
    /\ depth = <<>>
    /\ \E A \in ListingSets, B \in ListingSets :
           /\ source_dir_listing = SortedSeq(A)
           /\ target_dir_listing = SortedSeq(B)
           /\ source_tree = Closure(A)
           /\ target_tree = Closure(B)
           /\ InitFilesystem(A \cap B)
    /\ quiet = FALSE
    /\ no_color = FALSE
    /\ InitRun

get_dir_diff ==
    \/ LoopExit
    \/ IndexPanic
    \/ EmitRemoved
    \/ EmitAdded
    \/ EmitSimilarTypeChange
    \/ EmitSimilarCompared
    \/ ReadPanic
    \/ EmitSimilarNone
    \/ DrainTarget
    \/ DrainSource
    \/ NextIteration

Next ==
    \/ check_cli_args
    \/ ListSource
    \/ ListTarget
    \/ get_dir_diff
    \/ print_dir_diff
    \/ print_diff_summary

Spec == Init /\ [][Next]_vars

SpecDiff == InitDiff /\ [][get_dir_diff]_vars

----------------------------------------------------------------------------
\* Properties

PathsOf(out) == [i \in 1..Len(out) |-> out[i].path]

PathsTagged(out, tag) == {out[i].path : i \in {j \in 1..Len(out) : out[j].tag = tag}}

Occurrences(out, p) == Cardinality({i \in 1..Len(out) : out[i].path = p})

SourceSet == Range(source_dir_listing)
TargetSet == Range(target_dir_listing)

\* get_dir_diff has been called (main is past both listings).
InDiff == pc \notin {"check_args", "error", "list_source", "list_target"}

\* get_dir_diff has returned diff_output.
Returned == pc \in {"print", "summary", "done"}

\* print_dir_diff has returned.
Printed == pc \in {"summary", "done"}

\* C1: for sorted, duplicate-free listings A and B the returned sequence holds
\* every path of A \cup B exactly once, its Removed paths are A - B, its Added
\* paths are B - A and its Similar paths are the paths in both.
C1_Partition ==
    (Returned /\ IsSorted(source_dir_listing) /\ IsSorted(target_dir_listing)) =>
        /\ \A p \in SourceSet \cup TargetSet : Occurrences(diff_output, p) = 1
        /\ PathsTagged(diff_output, "Removed") = SourceSet \ TargetSet
        /\ PathsTagged(diff_output, "Added") = TargetSet \ SourceSet
        /\ PathsTagged(diff_output, "Similar") = SourceSet \cap TargetSet

\* C2: for sorted, duplicate-free listings the paths of the entries pushed so
\* far, read in output order, never decrease in PathBuf's order, the entries
\* pushed by a drain included.
C2_OutputNonDecreasing ==
    (IsSorted(source_dir_listing) /\ IsSorted(target_dir_listing)) =>
        NonDecreasing(PathsOf(diff_output))

\* A drain has pushed entries after at least two entries of the merge loop.
C2_Witness ==
    /\ pc = "print"
    /\ iteration >= 1
    /\ Len(diff_output) > iteration + 1
    /\ diff_output[iteration + 1].tag # diff_output[Len(diff_output)].tag

\* C3: with an empty source listing and a non-empty target listing
\* get_dir_diff completes, and returns one Added entry per target path, in
\* target order, and nothing else.
C3_EmptySource ==
    (InDiff /\ source_dir_listing = <<>> /\ target_dir_listing # <<>>) =>
        /\ pc # "panic"
        /\ Returned => diff_output = RemainingAdded(target_dir_listing, 0)

\* C4: both listings are sorted ascending when get_dir_diff is called,
\* whatever order the entries were enumerated in.
C4_SortedBeforeDiff ==
    InDiff => IsSorted(source_dir_listing) /\ IsSorted(target_dir_listing)

\* C5: with a depth limit d >= 1 the listing holds exactly the entries whose
\* relative path has between 1 and d components; with no depth it holds every
\* entry.
C5_DepthListing ==
    (pc \notin {"check_args", "error", "list_source"}) =>
        /\ depth = <<>> => SourceSet = source_tree
        /\ (depth # <<>> /\ depth[1] >= 1) =>
               SourceSet = {p \in source_tree : Len(p) <= depth[1]}

\* C6: with content comparison on, every path in both listings that is a
\* regular file on exactly one side is returned as Similar with Changed, never
\* with None or Unchanged, and its contents are never read.
C6_TypeChange ==
    (Returned /\ files /\ IsSorted(source_dir_listing) /\ IsSorted(target_dir_listing)) =>
        \A p \in SourceSet \cap TargetSet :
            (IsFile(p, source_files) # IsFile(p, target_files)) =>
                /\ \E i \in 1..Len(diff_output) : diff_output[i] = Similar(p, "Changed")
                /\ \A i \in 1..Len(diff_output) :
                       diff_output[i].path = p => diff_output[i] = Similar(p, "Changed")
                /\ p \notin reads

\* The count the summary line shows before the given words.
Shown(label) == (CHOOSE part \in Range(summary) : part.label = label).n

\* C7: with content comparison on and quiet off the summary shows the number
\* of Removed entries, of Added entries, of Similar entries of any content
\* status, of Unchanged entries and of Changed entries.
C7_SummaryCounts ==
    (pc = "done" /\ files /\ ~quiet) =>
        /\ Shown("removed") = Cardinality({i \in 1..Len(diff_output) : diff_output[i].tag = "Removed"})
        /\ Shown("added") = Cardinality({i \in 1..Len(diff_output) : diff_output[i].tag = "Added"})
        /\ Shown("similar") = Cardinality({i \in 1..Len(diff_output) : diff_output[i].tag = "Similar"})
        /\ Shown("files unchanged") = Cardinality({i \in 1..Len(diff_output) :
               diff_output[i].tag = "Similar" /\ diff_output[i].content = "Unchanged"})
        /\ Shown("files changed") = Cardinality({i \in 1..Len(diff_output) :
               diff_output[i].tag = "Similar" /\ diff_output[i].content = "Changed"})

\* C8: with quiet off, a Similar entry that was not compared and a Similar
\* entry that is Unchanged both print as one space followed by the path.
C8_SameRendering ==
    (Printed /\ ~quiet) =>
        \A i \in 1..Len(diff_output) :
            (diff_output[i].tag = "Similar" /\ diff_output[i].content \in {"None", "Unchanged"}) =>
                stdout[i] = Line(" ", diff_output[i].path, "plain")

\* C9: with --no-color no printed line carries a colour, whatever its entry.
C9_NoColour ==
    (Printed /\ no_color) =>
        \A i \in 1..Len(stdout) : stdout[i].colour = "plain"

LastEntry(out) == out[Len(out)]

\* After the comparison step the cursors account for the entries pushed.
CursorAccounting ==
    pc = "check" =>
        /\ source_index = Cardinality({i \in 1..Len(diff_output) :
               diff_output[i].tag \in {"Removed", "Similar"}})
        /\ target_index = Cardinality({i \in 1..Len(diff_output) :
               diff_output[i].tag \in {"Added", "Similar"}})

\* One comparison step pushes one entry and moves the cursors its tag names.
ComparisonStep ==
    /\ source_index' >= source_index
    /\ target_index' >= target_index
    /\ (pc = "loop" /\ pc' = "check") =>
           /\ diff_output' = Append(diff_output, LastEntry(diff_output'))
           /\ LastEntry(diff_output').tag = "Removed" =>
                  source_index' = source_index + 1 /\ target_index' = target_index
           /\ LastEntry(diff_output').tag = "Added" =>
                  source_index' = source_index /\ target_index' = target_index + 1
           /\ LastEntry(diff_output').tag = "Similar" =>
                  source_index' = source_index + 1 /\ target_index' = target_index + 1

\* C10: after the comparison step of every iteration source_index is the
\* number of Removed and Similar entries pushed and target_index the number of
\* Added and Similar entries; each comparison step pushes exactly one entry and
\* advances by one only the cursors its tag names; no cursor ever decreases.
C10_CursorAccounting == [] CursorAccounting /\ [][ComparisonStep]_vars

\* The second iteration has just pushed a Similar entry.
C10_Witness ==
    /\ pc = "check"
    /\ iteration >= 1
    /\ LastEntry(diff_output).tag = "Similar"
    /\ diff_output[1].tag # "Similar"

====
